---- MODULE Spec2Model ----
\* A model of TomeRater.py: the User, Book and TomeRater classes, with Book
\* objects kept in a heap (Python object identity) and dictionaries kept as
\* insertion-ordered sequences of entries keyed by Book.__eq__.
EXTENDS Integers, Sequences, FiniteSets, TLC

\* ---------------------------------------------------------------- bounds
MaxObjs == 2        \* Book objects the create operations may allocate
MaxRatings == 2     \* longest ratings list of one Book
MaxReads == 2       \* largest read-count stored in TomeRater.books
MaxList == 1        \* longest user_books list passed to add_user
MaxSteps == 4       \* calls made in one run

\* ---------------------------------------------------------------- inputs
None == <<>>                       \* rating=None; an integer r is <<r>>
Some(r) == <<r>>
NotABook == 0                      \* any value that is not a Book instance

EmailA == <<"a", "@", "x", ".", "c", "o">>
EmailB == <<"b", "@", "x", ".", "c", "o">>
EmailBad == <<"a", "@", "x">>
Emails == {EmailA, EmailB, EmailBad}
\* <<name, email>> passed to add_user: two names for one address
UserInputs == {<<"n1", EmailA>>, <<"n2", EmailA>>, <<"n1", EmailB>>, <<"n1", EmailBad>>}
\* <<title, isbn>> passed to the create operations: two titles under one
\* isbn, one title under two isbns
BookInputs == {<<"A", 1>>, <<"B", 1>>, <<"A", 2>>}
Ratings == {None, Some(-1), Some(0), Some(1), Some(4), Some(5)}

\* ---------------------------------------------------------------- User.check_email_is_valid
LowerChars == {"a", "b", "c", "d", "e", "f", "g", "h", "i", "j", "k", "l", "m",
               "n", "o", "p", "q", "r", "s", "t", "u", "v", "w", "x", "y", "z"}
DigitChars == {"0", "1", "2", "3", "4", "5", "6", "7", "8", "9"}
DomainChars == LowerChars \cup DigitChars \cup {"-"}
LocalChars == DomainChars \cup {"_"}

\* s matches C+(\.C+)*
DottedSegments(s, C) ==
    /\ Len(s) > 0
    /\ s[1] # "."
    /\ s[Len(s)] # "."
    /\ \A i \in 1..Len(s) :
          IF s[i] = "." THEN i < Len(s) /\ s[i + 1] # "." ELSE s[i] \in C

\* s matches [a-z0-9-]+(\.[a-z0-9-]+)*(\.[a-z]{2,4})
DomainMatches(s) ==
    /\ DottedSegments(s, DomainChars)
    /\ \E d \in 1..Len(s) :
          /\ s[d] = "."
          /\ \A i \in (d + 1)..Len(s) : s[i] \in LowerChars
          /\ Len(s) - d \in 2..4

\* '$' also matches just before one trailing newline
StripNewline(s) ==
    IF Len(s) > 0 /\ s[Len(s)] = "\n" THEN SubSeq(s, 1, Len(s) - 1) ELSE s

email_matches(email) ==
    LET e == StripNewline(email)
        ats == {i \in 1..Len(e) : e[i] = "@"}
    IN /\ Cardinality(ats) = 1
       /\ LET at == CHOOSE i \in ats : TRUE
          IN /\ DottedSegments(SubSeq(e, 1, at - 1), LocalChars)
             /\ DomainMatches(SubSeq(e, at + 1, Len(e)))

\* the match, computed once for each address the calls pass
EmailMatch == [e \in Emails |-> email_matches(e)]

check_email_is_valid(email) == EmailMatch[email]

\* ---------------------------------------------------------------- state
VARIABLES heap,     \* Book objects: heap[i] = [title, isbn, ratings]
          users,    \* TomeRater.users: email key -> [name, email, books]
          books,    \* TomeRater.books: sequence of [key, val], val the read-count
          call,     \* the operation last called, with its arguments
          outcome,  \* how that call ended: "ok", a reported outcome or an exception
          result,   \* what that call returned (0 for None)
          steps     \* calls made so far

vars == <<heap, users, books, call, outcome, result, steps>>

\* ---------------------------------------------------------------- Book
\* Fiction and NonFiction add only author, subject and level, which no
\* operation below reads: the three classes share this record.
Book(title, isbn) == [title |-> title, isbn |-> isbn, ratings |-> <<>>]

isinstance_Book(book) == book # NotABook

\* Book.__eq__ on two objects of heap h
BookEq(h, a, b) == h[a].title = h[b].title /\ h[a].isbn = h[b].isbn

\* range(0, 6) in place of range(0, 5)
check_rating_is_valid_upto5(rating) == rating # None /\ rating[1] \in 0..5

\* TRUE when no ValueError is raised
check_rating_is_valid(rating) == rating # None /\ rating[1] \in 0..4

\* average_rating as the exact fraction <<sum, len>>; <<0, 1>> for no ratings
RECURSIVE SumSeq(_)
SumSeq(s) == IF s = <<>> THEN 0 ELSE Head(s) + SumSeq(Tail(s))

average_rating(b) ==
    IF Len(b.ratings) > 0 THEN <<SumSeq(b.ratings), Len(b.ratings)>> ELSE <<0, 1>>

AvgGreater(x, y) == x[1] * y[2] > y[1] * x[2]

\* ---------------------------------------------------------------- dict keyed by Book
dict_index(h, d, book) ==
    IF \E i \in 1..Len(d) : BookEq(h, d[i].key, book)
    THEN CHOOSE i \in 1..Len(d) : BookEq(h, d[i].key, book)
    ELSE 0

dict_contains(h, d, book) == dict_index(h, d, book) # 0

\* d[book] = val: an equal key keeps its first object and position
dict_set(h, d, book, val) ==
    LET i == dict_index(h, d, book)
    IN IF i = 0 THEN Append(d, [key |-> book, val |-> val])
       ELSE [d EXCEPT ![i].val = val]

\* ---------------------------------------------------------------- results of a call
\* S is the program state [heap, users, books]; a call gives the state after
\* it with the way it ended and the value it returned.
Ret(S, o, r) ==
    [heap |-> S.heap, users |-> S.users, books |-> S.books, outcome |-> o, result |-> r]

Raised(R) == R.outcome \in {"InvalidRating", "InvalidEmail", "TypeError"}

\* add_rating checking only that a rating is given
add_rating_unchecked(S, book, rating) ==
    IF rating # None
    THEN Ret([S EXCEPT !.heap[book].ratings = Append(@, rating[1])], "ok", 0)
    ELSE Ret(S, "InvalidRating", 0)

\* Book.add_rating on object book
add_rating(S, book, rating) ==
    IF check_rating_is_valid(rating)
    THEN Ret([S EXCEPT !.heap[book].ratings = Append(@, rating[1])], "ok", 0)
    ELSE Ret(S, "InvalidRating", 0)

\* 'if rating:' is false for None and for 0
truthy(rating) == rating # None /\ rating[1] # 0

\* User.read_book on the user registered under key
read_book(S, key, book, rating) ==
    IF ~isinstance_Book(book) THEN Ret(S, "TypeError", 0)
    ELSE IF ~check_rating_is_valid(rating) /\ rating # None
    THEN Ret(S, "InvalidRating", 0)
    ELSE LET S1 == [S EXCEPT !.users[key].books = dict_set(S.heap, @, book, rating)]
         IN IF truthy(rating) THEN add_rating(S1, book, rating) ELSE Ret(S1, "ok", 0)

\* User.change_email on the user registered under key
change_email(S, key, new_address) ==
    IF check_email_is_valid(new_address)
    THEN Ret([S EXCEPT !.users[key].email = new_address], "ok", 0)
    ELSE Ret(S, "InvalidEmail", 0)

\* ---------------------------------------------------------------- TomeRater
check_isbn_in_catalog(S, isbn) ==
    \E i \in 1..Len(S.books) : S.heap[S.books[i].key].isbn = isbn

check_book_in_catalog(S, book) == dict_contains(S.heap, S.books, book)

\* create_book / create_novel / create_non_fiction: a new object, or None
create(S, title, isbn) ==
    IF ~check_isbn_in_catalog(S, isbn)
    THEN Ret([S EXCEPT !.heap = Append(@, Book(title, isbn))], "ok", Len(S.heap) + 1)
    ELSE Ret(S, "Duplicate", 0)

\* "ValueError", "True" or "False"
is_existing_user(us, email) ==
    IF ~check_email_is_valid(email) THEN "ValueError"
    ELSE IF email \in DOMAIN us THEN "True" ELSE "False"

\* lines 497-500: the read-count of book
count_read(S, book) ==
    IF check_book_in_catalog(S, book)
    THEN [S EXCEPT !.books = dict_set(S.heap, @, book,
                        @[dict_index(S.heap, @, book)].val + 1)]
    ELSE [S EXCEPT !.books = dict_set(S.heap, @, book, 1)]

\* lines 497-500 run after the if/else instead of inside the if
add_book_to_user_counts_always(S, book, email, rating) ==
    LET existing == is_existing_user(S.users, email)
    IN IF existing = "ValueError" THEN Ret(S, "InvalidEmail", 0)
       ELSE IF existing = "True"
       THEN LET R == read_book(S, email, book, rating)
            IN IF Raised(R) THEN R
               ELSE Ret(count_read([heap |-> R.heap, users |-> R.users,
                                    books |-> R.books], book), "ok", 0)
       ELSE IF isinstance_Book(book) THEN Ret(count_read(S, book), "NotFound", 0)
       ELSE Ret(S, "TypeError", 0)

add_book_to_user(S, book, email, rating) ==
    LET existing == is_existing_user(S.users, email)
    IN IF existing = "ValueError" THEN Ret(S, "InvalidEmail", 0)
       ELSE IF existing = "True"
       THEN LET R == read_book(S, email, book, rating)
            IN IF Raised(R) THEN R
               ELSE Ret(count_read([heap |-> R.heap, users |-> R.users,
                                    books |-> R.books], book), "ok", 0)
       ELSE Ret(S, "NotFound", 0)

User(name, email) == [name |-> name, email |-> email, books |-> <<>>]

\* lines 475-479: the loop over user_books
RECURSIVE add_user_books(_, _, _)
add_user_books(S, email, user_books) ==
    IF user_books = <<>> THEN Ret(S, "ok", 0)
    ELSE IF isinstance_Book(Head(user_books))
    THEN LET R == add_book_to_user(S, Head(user_books), email, None)
         IN IF Raised(R) THEN R
            ELSE add_user_books([heap |-> R.heap, users |-> R.users, books |-> R.books],
                                email, Tail(user_books))
    ELSE add_user_books(S, email, Tail(user_books))

Register(S, name, email) ==
    [S EXCEPT !.users = [k \in DOMAIN @ \cup {email} |->
                            IF k = email THEN User(name, email) ELSE @[k]]]

\* add_user without the is_existing_user test
add_user_unchecked(S, name, email, user_books) ==
    IF ~check_email_is_valid(email) THEN Ret(S, "InvalidEmail", 0)
    ELSE add_user_books(Register(S, name, email), email, user_books)

add_user(S, name, email, user_books) ==
    IF ~check_email_is_valid(email) THEN Ret(S, "InvalidEmail", 0)
    ELSE LET existing == is_existing_user(S.users, email)
         IN IF existing = "ValueError" THEN Ret(S, "InvalidEmail", 0)
            ELSE IF existing = "False"
            THEN add_user_books(Register(S, name, email), email, user_books)
            ELSE Ret(S, "Duplicate", 0)

\* highest_rated_book: the sentinel is a fresh Book outside the heap
REFERENCE == -1
reference_book == Book("reference_book", 1000002)
Deref(h, ref) == IF ref = REFERENCE THEN reference_book ELSE h[ref]

RECURSIVE highest_from(_, _, _)
highest_from(S, i, best) ==
    IF i > Len(S.books) THEN best
    ELSE IF AvgGreater(average_rating(S.heap[S.books[i].key]),
                       average_rating(Deref(S.heap, best)))
    THEN highest_from(S, i + 1, S.books[i].key)
    ELSE highest_from(S, i + 1, best)

highest_rated_book(S) == Ret(S, "ok", highest_from(S, 1, REFERENCE))

\* ---------------------------------------------------------------- actions
State == [heap |-> heap, users |-> users, books |-> books]

Bounded(R) ==
    /\ Len(R.heap) <= MaxObjs
    /\ \A i \in 1..Len(R.heap) : Len(R.heap[i].ratings) <= MaxRatings
    /\ \A i \in 1..Len(R.books) : R.books[i].val <= MaxReads

Call(op, book, email, rating) ==
    [op |-> op, book |-> book, email |-> email, rating |-> rating]

Do(R, c) ==
    /\ steps < MaxSteps
    /\ steps' = steps + 1
    /\ Bounded(R)
    /\ heap' = R.heap
    /\ users' = R.users
    /\ books' = R.books
    /\ outcome' = R.outcome
    /\ result' = R.result
    /\ call' = c

\* what a caller can pass as a book: a created object or a non-Book value
BookArgs == (1..Len(heap)) \cup {NotABook}

\* user_books=None behaves as the empty list (line 474)
BookLists == UNION {[1..n -> BookArgs] : n \in 0..MaxList}

Init ==
    /\ heap = <<>>
    /\ users = <<>>
    /\ books = <<>>
    /\ call = Call("init", NotABook, <<>>, None)
    /\ outcome = "ok"
    /\ result = 0
    /\ steps = 0

CreateBook == \E id \in BookInputs : Do(create(State, id[1], id[2]), Call("create_book", NotABook, <<>>, None))

CreateNovel == \E id \in BookInputs : Do(create(State, id[1], id[2]), Call("create_novel", NotABook, <<>>, None))

CreateNonFiction ==
    \E id \in BookInputs : Do(create(State, id[1], id[2]), Call("create_non_fiction", NotABook, <<>>, None))

AddUserCall(n, e, l) == Do(add_user(State, n, e, l), Call("add_user", NotABook, e, None))

AddUser == \E u \in UserInputs, l \in BookLists : AddUserCall(u[1], u[2], l)

\* add_user without user_books
AddUserNoBooks == \E e \in Emails : AddUserCall("n1", e, <<>>)

AddBookToUserCall(b, e, r) == Do(add_book_to_user(State, b, e, r), Call("add_book_to_user", b, e, r))

AddBookToUser == \E b \in BookArgs, e \in Emails, r \in Ratings : AddBookToUserCall(b, e, r)

\* change_email called on the user object registered under k
ChangeEmailCall(k, a) == Do(change_email(State, k, a), Call("change_email", NotABook, k, None))

ChangeEmail == \E k \in DOMAIN users, a \in Emails : ChangeEmailCall(k, a)

HighestRatedBook == Do(highest_rated_book(State), Call("highest_rated_book", NotABook, <<>>, None))

\* read_book called on the user object registered under k
ReadBookCall(k, b, r) == Do(read_book(State, k, b, r), Call("read_book", b, k, r))

ReadBook == \E k \in DOMAIN users, b \in BookArgs, r \in Ratings : ReadBookCall(k, b, r)

AddRatingCall(b, r) == Do(add_rating(State, b, r), Call("add_rating", b, <<>>, r))

AddRating == \E b \in 1..Len(heap), r \in Ratings : AddRatingCall(b, r)

\* the engine's operations
Next ==
    \/ CreateBook
    \/ CreateNovel
    \/ CreateNonFiction
    \/ AddUser
    \/ AddBookToUser
    \/ HighestRatedBook

Spec == Init /\ [][Next]_vars

\* the engine's registration with User.change_email on registered users
NextEmail ==
    \/ CreateBook
    \/ AddUser
    \/ ChangeEmail

SpecEmail == Init /\ [][NextEmail]_vars

\* the engine's operations with User.read_book and Book.add_rating called directly
NextDirect ==
    \/ CreateBook
    \/ AddUserNoBooks
    \/ AddBookToUser
    \/ ReadBook
    \/ AddRating

SpecDirect == Init /\ [][NextDirect]_vars

\* ---------------------------------------------------------------- properties
Identity(b) == <<heap[b].title, heap[b].isbn>>
CatalogIds == {Identity(books[i].key) : i \in 1..Len(books)}
UserIds(k) == {Identity(users[k].books[i].key) : i \in 1..Len(users[k].books)}
InvalidRatings == {r \in Ratings : r # None /\ r[1] \notin 0..4}
ProgramUnchanged == UNCHANGED <<heap, users, books>>

\* C1: a book identity is a key of books iff some registered user's books
\* holds it, and every read-count in books is at least 1.
C1_BooksIffRead ==
    /\ CatalogIds = UNION {UserIds(k) : k \in DOMAIN users}
    /\ \A i \in 1..Len(books) : books[i].val >= 1

C1_Witness ==
    /\ call.op = "add_book_to_user"
    /\ outcome = "ok"
    /\ Cardinality(DOMAIN users) = 2
    /\ \E i \in 1..Len(books) :
          /\ books[i].val = 2
          /\ \A k \in DOMAIN users : Identity(books[i].key) \in UserIds(k)

\* C2: read_book and add_book_to_user with a rating outside 0..4, on a
\* registered user and any book, end in InvalidRating and change nothing.
C2_InvalidRatingNoMutation ==
    [][(/\ call'.op \in {"read_book", "add_book_to_user"}
        /\ call'.email \in DOMAIN users
        /\ isinstance_Book(call'.book)
        /\ call'.rating \in InvalidRatings)
          => (outcome' = "InvalidRating" /\ ProgramUnchanged)]_vars

C2_Witness ==
    /\ call.op = "add_book_to_user"
    /\ call.rating \in InvalidRatings
    /\ outcome = "InvalidRating"
    /\ dict_contains(heap, users[call.email].books, call.book)
    /\ heap[call.book].ratings # <<>>
    /\ dict_contains(heap, books, call.book)

\* C3: a successful read_book(book, r) with r in 0..4 appends r to the
\* book's ratings; with rating None the ratings are unchanged.
C3_ValidRatingAppended ==
    [][(call'.op = "read_book" /\ outcome' = "ok")
          => heap'[call'.book].ratings =
                IF call'.rating = None THEN heap[call'.book].ratings
                ELSE Append(heap[call'.book].ratings, call'.rating[1])]_vars

\* C4: no two distinct keys of books have the same isbn.
C4_NoDuplicateIsbn ==
    \A i, j \in 1..Len(books) :
        i # j => heap[books[i].key].isbn # heap[books[j].key].isbn

\* C5: no two registered users have the same current email, and every
\* entry key -> user of users has user.email = key.
C5_OneUserPerEmail ==
    /\ \A k \in DOMAIN users : users[k].email = k
    /\ \A k1, k2 \in DOMAIN users : k1 # k2 => users[k1].email # users[k2].email

\* C6 as stated: add_book_to_user with an email that is not a key of users,
\* valid or not, ends in NotFound and changes nothing.
C6_UnknownEmailNotFound ==
    [][(call'.op = "add_book_to_user" /\ call'.email \notin DOMAIN users)
          => (outcome' = "NotFound" /\ ProgramUnchanged)]_vars

\* C6 amended: add_book_to_user with an email that is not a key of users
\* changes nothing; it ends in NotFound when the email is syntactically valid
\* and raises ValueError (InvalidEmail) when it is not.
C6_UnknownValidEmailNotFound ==
    [][(call'.op = "add_book_to_user" /\ call'.email \notin DOMAIN users)
          => /\ ProgramUnchanged
             /\ outcome' = IF check_email_is_valid(call'.email) THEN "NotFound"
                                                                ELSE "InvalidEmail"]_vars

C6_Witness ==
    /\ call.op = "add_book_to_user"
    /\ call.email \notin DOMAIN users
    /\ outcome = "NotFound"
    /\ isinstance_Book(call.book)
    /\ DOMAIN users # {}
    /\ books # <<>>

\* C7: add_user with an email that is already a key of users reports the
\* duplicate and changes no user, no user's books and no read-count.
C7_DuplicateUserNoOp ==
    [][(call'.op = "add_user" /\ call'.email \in DOMAIN users)
          => (outcome' = "Duplicate" /\ ProgramUnchanged)]_vars

C7_Witness ==
    /\ call.op = "add_user"
    /\ outcome = "Duplicate"
    /\ users[call.email].books # <<>>
    /\ books # <<>>

\* C8: highest_rated_book returns the reference book only when books is
\* empty; otherwise it returns the first key of books, in insertion order,
\* whose average rating no other key exceeds.
C8_HighestRated ==
    call.op = "highest_rated_book" =>
        /\ result = REFERENCE => books = <<>>
        /\ books # <<>> =>
              \E i \in 1..Len(books) :
                  /\ result = books[i].key
                  /\ \A j \in 1..Len(books) :
                        ~AvgGreater(average_rating(heap[books[j].key]),
                                    average_rating(heap[books[i].key]))
                  /\ \A j \in 1..(i - 1) :
                        AvgGreater(average_rating(heap[books[i].key]),
                                   average_rating(heap[books[j].key]))

\* C9: every read-count in books is the number of registered users whose
\* books holds that book.
C9_CountIsNumberOfUsers ==
    \A i \in 1..Len(books) :
        books[i].val =
            Cardinality({k \in DOMAIN users : Identity(books[i].key) \in UserIds(k)})

\* C10: every element of every book's ratings is in 0..4, and add_rating
\* with a rating outside 0..4 ends in InvalidRating with the ratings unchanged.
C10_RatingsInRange ==
    [][/\ \A b \in 1..Len(heap') : \A i \in 1..Len(heap'[b].ratings) :
             heap'[b].ratings[i] \in 0..4
       /\ (call'.op = "add_rating" /\ call'.rating \in InvalidRatings)
             => (outcome' = "InvalidRating" /\ heap' = heap)]_vars

C10_Witness ==
    /\ call.op = "add_rating"
    /\ call.rating \in InvalidRatings
    /\ outcome = "InvalidRating"
    /\ Len(heap[call.book].ratings) = 2

====
